---- MODULE Spec2Model ----
(***************************************************************************)
(* A model of bevy-export-jsonschema (src/src/lib.rs): export_type maps one *)
(* type registration to a JSON Schema node, add_min_max injects the numeric *)
(* bounds of bevy-inspector-egui, and App::export_types collects, sorts,    *)
(* wraps and serializes the nodes of the whole type registry.               *)
(*                                                                         *)
(* Rust strings are TLA+ strings; Bytes gives each its UTF-8 bytes, so that *)
(* str::starts_with and the Ord of String are computed on the bytes.        *)
(* A serde_json::Value is a tagged record; a serde_json::Map is the sorted  *)
(* entry list of the BTreeMap behind it.                                    *)
(***************************************************************************)
EXTENDS Integers, Sequences, FiniteSets, TLC

\* Bounds of the model.
MaxFields == 2      \* fields of one type, all its variants together
MaxVariants == 2    \* variants of one enum
MaxTypes == 2       \* registrations in the registry of a whole export

VARIABLES
    support_inspector,  \* cargo feature "support-inspector" of the build
    registry,           \* AppTypeRegistry: the set of TypeRegistrations
    pc,                 \* position of the running call
    iter_order,         \* the type paths in the order types.iter() yielded them
    hash_orders,        \* per type path, the seeds of the HashMaps export_type built
    reordered,          \* which of the two orders differ from the call before
    schemas,            \* Vec<Value>: the nodes, sorted
    pending,            \* what the serializer has still to write
    sink,               \* what the writer of the running call has received
    previous,           \* what the writer of the call before received, once it returned
    stderr              \* the last eprintln! report

vars == <<support_inspector, registry, pc, iter_order, hash_orders,
          reordered, schemas, pending, sink, previous, stderr>>

-----------------------------------------------------------------------------
\* Strings

\* The UTF-8 bytes of every string the model uses.
Bytes ==
       ("$schema" :> <<36,115,99,104,101,109,97>>)
    @@ ("title" :> <<116,105,116,108,101>>)
    @@ ("oneOf" :> <<111,110,101,79,102>>)
    @@ ("type" :> <<116,121,112,101>>)
    @@ ("name" :> <<110,97,109,101>>)
    @@ ("properties" :> <<112,114,111,112,101,114,116,105,101,115>>)
    @@ ("additionalProperties" :> <<97,100,100,105,116,105,111,110,97,108,80,114,111,112,101,114,116,105,101,115>>)
    @@ ("required" :> <<114,101,113,117,105,114,101,100>>)
    @@ ("enum" :> <<101,110,117,109>>)
    @@ ("prefixItems" :> <<112,114,101,102,105,120,73,116,101,109,115>>)
    @@ ("items" :> <<105,116,101,109,115>>)
    @@ ("const" :> <<99,111,110,115,116>>)
    @@ ("isComponent" :> <<105,115,67,111,109,112,111,110,101,110,116>>)
    @@ ("isResource" :> <<105,115,82,101,115,111,117,114,99,101>>)
    @@ ("minimum" :> <<109,105,110,105,109,117,109>>)
    @@ ("maximum" :> <<109,97,120,105,109,117,109>>)
    @@ ("object" :> <<111,98,106,101,99,116>>)
    @@ ("string" :> <<115,116,114,105,110,103>>)
    @@ ("array" :> <<97,114,114,97,121>>)
    @@ ("https://json-schema.org/draft/2020-12/schema" :> <<104,116,116,112,115,58,47,47,106,115,111,110,45,115,99,104,101,109,97,46,111,114,103,47,100,114,97,102,116,47,50,48,50,48,45,49,50,47,115,99,104,101,109,97>>)
    @@ ("bevy game schema" :> <<98,101,118,121,32,103,97,109,101,32,115,99,104,101,109,97>>)
    @@ ("core::option::Option" :> <<99,111,114,101,58,58,111,112,116,105,111,110,58,58,79,112,116,105,111,110>>)
    @@ ("f32" :> <<102,51,50>>)
    @@ ("core::option::Option<f32>" :> <<99,111,114,101,58,58,111,112,116,105,111,110,58,58,79,112,116,105,111,110,60,102,51,50,62>>)
    @@ ("alloc::vec::Vec<core::option::Option<f32>>" :> <<97,108,108,111,99,58,58,118,101,99,58,58,86,101,99,60,99,111,114,101,58,58,111,112,116,105,111,110,58,58,79,112,116,105,111,110,60,102,51,50,62,62>>)
    @@ ("alloc::string::String" :> <<97,108,108,111,99,58,58,115,116,114,105,110,103,58,58,83,116,114,105,110,103>>)
    @@ ("health" :> <<104,101,97,108,116,104>>)
    @@ ("x" :> <<120>>)
    @@ ("y" :> <<121>>)
    @@ ("North" :> <<78,111,114,116,104>>)
    @@ ("South" :> <<83,111,117,116,104>>)
    @@ ("East" :> <<69,97,115,116>>)
    @@ ("West" :> <<87,101,115,116>>)
    @@ ("game::Player" :> <<103,97,109,101,58,58,80,108,97,121,101,114>>)
    @@ ("game::PlayerKind" :> <<103,97,109,101,58,58,80,108,97,121,101,114,75,105,110,100>>)
    @@ ("game::Direction" :> <<103,97,109,101,58,58,68,105,114,101,99,116,105,111,110>>)
    @@ ("game::Shape" :> <<103,97,109,101,58,58,83,104,97,112,101>>)

Min(a, b) == IF a < b THEN a ELSE b

\* <[u8] as Ord>::lt, which String's Ord is: lexicographic on the bytes.
LexLess(a, b) ==
    \E i \in 1..(Min(Len(a), Len(b)) + 1) :
        /\ \A j \in 1..(i - 1) : a[j] = b[j]
        /\ \/ i > Len(a) /\ i <= Len(b)
           \/ i <= Len(a) /\ i <= Len(b) /\ a[i] < b[i]

StrLess(s, t) == LexLess(Bytes[s], Bytes[t])

StrLeq(s, t) == s = t \/ StrLess(s, t)

\* str::contains(s, p)
starts_with_contains(s, p) ==
    \E k \in 0..Len(Bytes[s]) :
        /\ k + Len(Bytes[p]) <= Len(Bytes[s])
        /\ SubSeq(Bytes[s], k + 1, k + Len(Bytes[p])) = Bytes[p]

\* str::starts_with(s, p)
starts_with(s, p) ==
    /\ Len(Bytes[p]) <= Len(Bytes[s])
    /\ SubSeq(Bytes[s], 1, Len(Bytes[p])) = Bytes[p]

OptionPrefix == "core::option::Option"

-----------------------------------------------------------------------------
\* Option<T>, f32

None == [some |-> FALSE]
Some(x) == [some |-> TRUE, val |-> x]

\* An f32: a finite value (a whole number here) or a non-finite one.
Finite(n) == [fin |-> TRUE, n |-> n]
Infinity == [fin |-> FALSE]

-----------------------------------------------------------------------------
\* serde_json::Value

JNull == [t |-> "null"]
JBool(b) == [t |-> "bool", b |-> b]
JNum(n) == [t |-> "num", n |-> n]
JStr(s) == [t |-> "str", s |-> s]
JArr(e) == [t |-> "arr", e |-> e]
JObj(m) == [t |-> "obj", m |-> m]

\* Value::from(f32): Value::Number, or Value::Null if infinite or NaN.
FromF32(x) == IF x.fin THEN JNum(x.n) ELSE JNull

MapHas(m, k) == \E i \in 1..Len(m) : m[i][1] = k

\* Map::insert with insertion order kept (serde_json's preserve_order).
MapInsert_preserve_order(m, k, v) ==
    IF MapHas(m, k)
    THEN [i \in 1..Len(m) |-> IF m[i][1] = k THEN <<k, v>> ELSE m[i]]
    ELSE Append(m, <<k, v>>)

\* Map::insert: serde_json::Map<String, Value> is a BTreeMap, whose entries are
\* kept in the order of their keys; an equal key is replaced.
MapInsert(m, k, v) ==
    SelectSeq(m, LAMBDA e : StrLess(e[1], k))
        \o << <<k, v>> >>
        \o SelectSeq(m, LAMBDA e : StrLess(k, e[1]))

\* The Map built by inserting the entries es, one after the other.
RECURSIVE MapFrom(_)
MapFrom(es) ==
    IF es = << >> THEN << >>
    ELSE MapInsert(MapFrom(SubSeq(es, 1, Len(es) - 1)),
                   es[Len(es)][1], es[Len(es)][2])

\* json!({ k: v, ... }): the keys are inserted in the order they are written.
Json(es) == JObj(MapFrom(es))

\* Value::as_object_mut().unwrap().insert(k, v)
ObjInsert(val, k, v) == JObj(MapInsert(val.m, k, v))

\* Value::get(k)
Has(val, k) == val.t = "obj" /\ MapHas(val.m, k)
Get(val, k) == val.m[CHOOSE i \in 1..Len(val.m) : val.m[i][1] = k][2]
Keys(val) == {val.m[i][1] : i \in 1..Len(val.m)}

\* The permutations of 1..n: the orders in which a HashMap of n entries may
\* iterate (its RandomState is seeded per map).
PermsOf ==
    [n \in 0..MaxFields |->
        {p \in [1..n -> 1..n] : \A i, j \in 1..n : p[i] = p[j] => i = j}]
Perms(n) == PermsOf[n]

\* HashMap<&str, Value> collected from es, then iterated under seed p.
HashIter(es, p) == [i \in 1..Len(es) |-> es[p[i]]]

\* Serialize for HashMap inside json!: the entries reach the Map in the
\* HashMap's iteration order.
HashMapToValue(es, p) == JObj(MapFrom(HashIter(es, p)))

-----------------------------------------------------------------------------
\* bevy_reflect: TypeInfo, VariantInfo, NamedField, UnnamedField

NamedField(name, tp) == [name |-> name, type_path |-> tp]
UnnamedField(tp) == [type_path |-> tp]

UnitVariant(name) == [kind |-> "Unit", name |-> name, fields |-> << >>]
TupleVariant(name, fields) == [kind |-> "Tuple", name |-> name, fields |-> fields]
StructVariant(name, fields) == [kind |-> "Struct", name |-> name, fields |-> fields]

StructInfo(tp, fields) == [kind |-> "Struct", type_path |-> tp, fields |-> fields]
EnumInfo(tp, variants) == [kind |-> "Enum", type_path |-> tp, variants |-> variants]
TupleStructInfo(tp, fields) == [kind |-> "TupleStruct", type_path |-> tp, fields |-> fields]
TupleInfo(tp, fields) == [kind |-> "Tuple", type_path |-> tp, fields |-> fields]
ListInfo(tp) == [kind |-> "List", type_path |-> tp]
ArrayInfo(tp) == [kind |-> "Array", type_path |-> tp]
MapInfo(tp) == [kind |-> "Map", type_path |-> tp]
ValueInfo(tp) == [kind |-> "Value", type_path |-> tp]

\* bevy_inspector_egui: Target, NumberOptions<f32>, other options
FieldTarget(field_index) ==
    [kind |-> "Field", variant_index |-> 0, field_index |-> field_index]
VariantFieldTarget(variant_index, field_index) ==
    [kind |-> "VariantField", variant_index |-> variant_index,
     field_index |-> field_index]

NumberOptions(min, max) == [ty |-> "NumberOptions<f32>", min |-> min, max |-> max]
OtherOptions == [ty |-> "QuatOptions"]

\* A TypeRegistration: its TypeInfo and its type data (ReflectComponent,
\* ReflectResource, ReflectInspectorOptions: None, or Some map from Target
\* to options).
Registration(info, component, resource, inspector) ==
    [info |-> info, component |-> component, resource |-> resource,
     inspector |-> inspector]

-----------------------------------------------------------------------------
\* add_min_max

\* get_min_max: None without the feature; with it, the NumberOptions<f32>
\* registered for the target, if the type has inspector options, they hold
\* the target, and the target's options are NumberOptions<f32>.
get_min_max(reg, field_index, variant_index) ==
    IF ~support_inspector \/ ~reg.inspector.some THEN None
    ELSE LET o == reg.inspector.val
             target == IF variant_index.some
                       THEN VariantFieldTarget(variant_index.val, field_index)
                       ELSE FieldTarget(field_index)
         IN  IF target \notin DOMAIN o THEN None
             ELSE IF o[target].ty # "NumberOptions<f32>" THEN None
             ELSE Some(<<o[target].min, o[target].max>>)

\* add_min_max that inserts maximum only next to a minimum.
add_min_max_nested(val, reg, field_index, variant_index) ==
    LET mm == get_min_max(reg, field_index, variant_index) IN
    IF ~mm.some THEN val
    ELSE IF mm.val[1].some
         THEN LET withMin == ObjInsert(val, "minimum", FromF32(mm.val[1].val))
              IN  IF mm.val[2].some
                  THEN ObjInsert(withMin, "maximum", FromF32(mm.val[2].val))
                  ELSE withMin
         ELSE val

add_min_max(val, reg, field_index, variant_index) ==
    LET mm == get_min_max(reg, field_index, variant_index) IN
    IF ~mm.some THEN val
    ELSE LET min == mm.val[1]
             max == mm.val[2]
             withMin == IF min.some
                        THEN ObjInsert(val, "minimum", FromF32(min.val))
                        ELSE val
         IN  IF max.some
             THEN ObjInsert(withMin, "maximum", FromF32(max.val))
             ELSE withMin

-----------------------------------------------------------------------------
\* export_type

\* map(|field| field.name()).collect::<Vec<_>>()
field_names(fields) == [i \in 1..Len(fields) |-> JStr(fields[i].name)]

\* "required" of a Struct with contains in the place of starts_with.
struct_required_contains(info) ==
    field_names(SelectSeq(info.fields,
        LAMBDA field : ~starts_with_contains(field.type_path, OptionPrefix)))

\* "required" of a Struct: the fields whose type path does not start with
\* "core::option::Option".
struct_required(info) ==
    field_names(SelectSeq(info.fields,
        LAMBDA field : ~starts_with(field.type_path, OptionPrefix)))

\* "required" of a struct variant with the filter of the plain Struct.
variant_required_as_struct(v) ==
    field_names(SelectSeq(v.fields,
        LAMBDA field : ~starts_with(field.type_path, OptionPrefix)))

\* "required" of a struct variant: the fields whose type path does start
\* with "core::option::Option".
variant_required(v) ==
    field_names(SelectSeq(v.fields,
        LAMBDA field : starts_with(field.type_path, OptionPrefix)))

\* TypeInfo::Struct
export_struct(reg, info, seed) ==
    LET properties ==
            [i \in 1..Len(info.fields) |->
                <<info.fields[i].name,
                  add_min_max(Json(<< <<"type", JStr(info.fields[i].type_path)>> >>),
                              reg, i - 1, None)>>]
    IN  Json(<< <<"type", JStr("object")>>,
                <<"name", JStr(info.type_path)>>,
                <<"properties", HashMapToValue(properties, seed)>>,
                <<"additionalProperties", JBool(FALSE)>>,
                <<"required", JArr(struct_required(info))>> >>)

\* all(|variant| matches!(variant, VariantInfo::Unit(_)))
simple(info) == \A i \in 1..Len(info.variants) : info.variants[i].kind = "Unit"

\* An all-unit enum exported the way a mixed one is.
export_simple_enum_as_mixed(info) ==
    Json(<< <<"type", JStr("object")>>,
            <<"name", JStr(info.type_path)>>,
            <<"oneOf", JArr([i \in 1..Len(info.variants) |->
                                Json(<< <<"const", JStr(info.variants[i].name)>> >>)])>> >>)

\* TypeInfo::Enum, every variant a unit variant
export_simple_enum(info) ==
    Json(<< <<"type", JStr("string")>>,
            <<"name", JStr(info.type_path)>>,
            <<"enum", JArr([i \in 1..Len(info.variants) |->
                               JStr(info.variants[i].name)])>> >>)

\* The sub-schema of a struct variant's field as that of a Struct's field.
variant_field_schema_plain(field) ==
    Json(<< <<"type", JStr(field.type_path)>> >>)

\* json!({"type": field.type_path(), "name": field.name()}): the sub-schema
\* of a struct variant's field, before add_min_max.
variant_field_schema(field) ==
    Json(<< <<"type", JStr(field.type_path)>>, <<"name", JStr(field.name)>> >>)

\* One variant of a mixed enum. The closure names the variant's position
\* field_idx and the position of a field inside the variant variant_idx, and
\* hands them to add_min_max under those names.
export_variant(reg, info, field_idx, seed) ==
    LET v == info.variants[field_idx + 1] IN
    CASE v.kind = "Struct" ->
            Json(<< <<"type", JStr("object")>>,
                    <<"name", JStr(info.type_path)>>,
                    <<"properties",
                      HashMapToValue(
                        [i \in 1..Len(v.fields) |->
                            LET variant_idx == i - 1 IN
                            <<v.fields[i].name,
                              add_min_max(variant_field_schema(v.fields[i]),
                                          reg, field_idx, Some(variant_idx))>>],
                        seed)>>,
                    <<"additionalProperties", JBool(FALSE)>>,
                    <<"required", JArr(variant_required(v))>> >>)
      [] v.kind = "Tuple" ->
            Json(<< <<"type", JStr("array")>>,
                    <<"prefixItems",
                      JArr([i \in 1..Len(v.fields) |->
                            LET variant_idx == i - 1 IN
                            add_min_max(
                                Json(<< <<"type", JStr(v.fields[i].type_path)>> >>),
                                reg, field_idx, Some(variant_idx))])>>,
                    <<"items", JBool(FALSE)>> >>)
      [] v.kind = "Unit" ->
            Json(<< <<"const", JStr(v.name)>> >>)

\* TypeInfo::Enum, some variant not a unit variant
export_mixed_enum(reg, info, seeds) ==
    Json(<< <<"type", JStr("object")>>,
            <<"name", JStr(info.type_path)>>,
            <<"oneOf", JArr([i \in 1..Len(info.variants) |->
                                export_variant(reg, info, i - 1, seeds[i])])>> >>)

\* TypeInfo::TupleStruct and TypeInfo::Tuple
export_tuple(reg, info) ==
    Json(<< <<"name", JStr(info.type_path)>>,
            <<"type", JStr("array")>>,
            <<"prefixItems",
              JArr([i \in 1..Len(info.fields) |->
                    add_min_max(Json(<< <<"type", JStr(info.fields[i].type_path)>> >>),
                                reg, i - 1, None)])>>,
            <<"items", JBool(FALSE)>> >>)

\* The match of export_type on the TypeInfo. seeds holds the iteration order
\* of each HashMap the call builds: seeds[1] for a Struct, seeds[i] for the
\* i-th variant of an enum.
export_shape(reg, seeds) ==
    LET t == reg.info IN
    CASE t.kind = "Struct" -> export_struct(reg, t, seeds[1])
      [] t.kind = "Enum" ->
            IF simple(t) THEN export_simple_enum(t)
            ELSE export_mixed_enum(reg, t, seeds)
      [] t.kind \in {"TupleStruct", "Tuple"} -> export_tuple(reg, t)
      \* info.type_path() of a ListInfo, ArrayInfo, MapInfo or ValueInfo is
      \* the path of the type itself, as t.type_path() is.
      [] t.kind \in {"List", "Array"} ->
            Json(<< <<"name", JStr(t.type_path)>>,
                    <<"type", JStr("array")>>,
                    <<"items", Json(<< <<"type", JStr(t.type_path)>> >>)>> >>)
      [] t.kind = "Map" ->
            Json(<< <<"name", JStr(t.type_path)>>,
                    <<"type", JStr("object")>>,
                    <<"additionalProperties",
                      Json(<< <<"type", JStr(t.type_path)>> >>)>> >>)
      [] t.kind = "Value" ->
            Json(<< <<"name", JStr(t.type_path)>>,
                    <<"type", JStr(t.type_path)>> >>)

\* export_type with the two capabilities exchanged.
export_type_flags_swapped(reg, seeds) ==
    ObjInsert(ObjInsert(export_shape(reg, seeds),
                        "isComponent", JBool(reg.resource)),
              "isResource", JBool(reg.component))

export_type(reg, seeds) ==
    ObjInsert(ObjInsert(export_shape(reg, seeds),
                        "isComponent", JBool(reg.component)),
              "isResource", JBool(reg.resource))

\* The seeds one export_type call of reg may meet.
SeedSlot(t, i) ==
    CASE t.kind = "Struct" -> IF i = 1 THEN Len(t.fields) ELSE 0
      [] t.kind = "Enum" ->
            IF i <= Len(t.variants) /\ t.variants[i].kind = "Struct"
            THEN Len(t.variants[i].fields) ELSE 0
      [] OTHER -> 0

SeedSlots(t) == IF t.kind = "Enum" THEN Len(t.variants) ELSE 1

RECURSIVE SeedsFrom(_, _)
SeedsFrom(t, i) ==
    IF i > SeedSlots(t) THEN {<< >>}
    ELSE {<<p>> \o rest : p \in Perms(SeedSlot(t, i)), rest \in SeedsFrom(t, i + 1)}

Seeds(reg) == SeedsFrom(reg.info, 1)

-----------------------------------------------------------------------------
\* The registrations export_type is applied to

\* Field and variant names are those of their position; the declaration
\* order is not the order of the names.
FieldNames == <<"name", "health", "x", "y">>
VariantNames == <<"North", "South", "East", "West">>

FieldTypePaths ==
    {"f32", "core::option::Option<f32>",
     "alloc::vec::Vec<core::option::Option<f32>>"}

TypeSeqs == UNION {[1..n -> FieldTypePaths] : n \in 0..MaxFields}

NamedFields(ts) == [i \in 1..Len(ts) |-> NamedField(FieldNames[i], ts[i])]
UnnamedFields(ts) == [i \in 1..Len(ts) |-> UnnamedField(ts[i])]

\* The payload of a variant: its kind and the type paths of its fields.
VariantTypePaths == {"f32", "core::option::Option<f32>"}

Payloads ==
    {<<"Unit", << >> >>}
        \cup {<<k, ts>> : k \in {"Tuple", "Struct"},
                          ts \in UNION {[1..n -> VariantTypePaths] : n \in 1..MaxFields}}

RECURSIVE TotalFields(_)
TotalFields(ps) ==
    IF ps = << >> THEN 0 ELSE Len(ps[1][2]) + TotalFields(Tail(ps))

PayloadSeqs ==
    {ps \in UNION {[1..n -> Payloads] : n \in 0..MaxVariants} :
        TotalFields(ps) <= MaxFields}

Variant(name, payload) ==
    CASE payload[1] = "Unit" -> UnitVariant(name)
      [] payload[1] = "Tuple" -> TupleVariant(name, UnnamedFields(payload[2]))
      [] payload[1] = "Struct" -> StructVariant(name, NamedFields(payload[2]))

TypeInfos(tp) ==
    {StructInfo(tp, NamedFields(ts)) : ts \in TypeSeqs}
        \cup {TupleStructInfo(tp, UnnamedFields(ts)) : ts \in TypeSeqs}
        \cup {TupleInfo(tp, UnnamedFields(ts)) : ts \in TypeSeqs}
        \cup {EnumInfo(tp, [i \in 1..Len(ps) |-> Variant(VariantNames[i], ps[i])]) :
                ps \in PayloadSeqs}
        \cup {ListInfo(tp), ArrayInfo(tp), MapInfo(tp), ValueInfo(tp)}

\* The targets inspector options are registered for.
MaxIndex == IF MaxFields > MaxVariants THEN MaxFields ELSE MaxVariants
Targets ==
    {FieldTarget(p) : p \in 0..(MaxIndex - 1)}
        \cup {VariantFieldTarget(v, p) : v, p \in 0..(MaxIndex - 1)}

F32Options == {None, Some(Finite(1)), Some(Infinity)}

OptionValues ==
    {NumberOptions(min, max) : min, max \in F32Options} \cup {OtherOptions}

\* Bounds that tell the targets apart.
TargetCode(t) ==
    IF t.kind = "Field" THEN 100 + t.field_index
    ELSE 10 * (t.variant_index + 1) + t.field_index

DistinctOptions ==
    [t \in Targets |->
        NumberOptions(Some(Finite(TargetCode(t))), Some(Finite(1000 + TargetCode(t))))]

\* The tables of inspector options: distinct bounds for every target, the
\* same for the targets of a first field only, and one value for every target.
InspectorOptions ==
    {DistinctOptions,
     [t \in {u \in Targets : u.field_index = 0} |-> DistinctOptions[t]]}
        \cup {[t \in Targets |-> o] : o \in OptionValues}

\* Every shape under every capability, and every shape of a component under
\* every table of inspector options.
Registrations ==
    {Registration(info, c, r, None) :
        info \in UNION {TypeInfos(tp) : tp \in {"game::Player", "game::Shape"}},
        c \in BOOLEAN, r \in BOOLEAN}
        \cup {Registration(info, TRUE, FALSE, Some(o)) :
                info \in TypeInfos("game::Player"), o \in InspectorOptions}

-----------------------------------------------------------------------------
\* export_type on its own

InitType ==
    /\ support_inspector \in BOOLEAN
    /\ \E reg \in Registrations : registry = {reg}
    /\ pc = "export_type"
    /\ iter_order = << >>
    /\ hash_orders = << >>
    /\ reordered = {}
    /\ schemas = << >>
    /\ pending = << >>
    /\ sink = << >>
    /\ previous = None
    /\ stderr = None

\* export_type(reg) on the one registration, under any iteration order of
\* the HashMaps it builds.
ExportTypeCall ==
    /\ pc = "export_type"
    /\ \E reg \in registry : \E seeds \in Seeds(reg) :
            schemas' = <<export_type(reg, seeds)>>
    /\ pc' = "exported"
    /\ UNCHANGED <<support_inspector, registry, iter_order, hash_orders,
                   reordered, pending, sink, previous, stderr>>

NextType == ExportTypeCall

SpecType == InitType /\ [][NextType]_vars

\* The registration and the node of SpecType.
TheReg == CHOOSE reg \in registry : TRUE
TheNode == schemas[1]

-----------------------------------------------------------------------------
\* Properties of export_type (SpecType)

Exported == pc = "exported"

HasPrefix(field) == starts_with(field.type_path, OptionPrefix)

\* The elements of a JSON array of strings.
Strings(arr) == [i \in 1..Len(arr.e) |-> arr.e[i].s]

\* names lists exactly the fields that satisfy want, in field order.
ListsInOrder(names, fields, want(_)) ==
    /\ \A i \in 1..Len(fields) :
            want(fields[i]) <=> \E j \in 1..Len(names) : names[j] = fields[i].name
    /\ \A j \in 1..Len(names) :
            \E i \in 1..Len(fields) : names[j] = fields[i].name
    /\ \A j, k \in 1..Len(names) :
            j < k => \E i, l \in 1..Len(fields) :
                        i < l /\ names[j] = fields[i].name /\ names[k] = fields[l].name

Mixed(info) ==
    info.kind = "Enum" /\ \E i \in 1..Len(info.variants) : info.variants[i].kind # "Unit"

AllUnit(info) ==
    info.kind = "Enum" /\ \A i \in 1..Len(info.variants) : info.variants[i].kind = "Unit"

\* C1: the required list of a Struct's node holds exactly the names of the
\* fields whose type path does not start with "core::option::Option", in
\* field order, and every field, also one left out of required, is a key of
\* properties.
C1_StructRequired ==
    (Exported /\ TheReg.info.kind = "Struct") =>
        /\ ListsInOrder(Strings(Get(TheNode, "required")), TheReg.info.fields,
                        LAMBDA f : ~HasPrefix(f))
        /\ Keys(Get(TheNode, "properties")) =
                {TheReg.info.fields[i].name : i \in 1..Len(TheReg.info.fields)}

C1_Witness ==
    /\ Exported
    /\ TheReg.info.kind = "Struct"
    /\ Len(TheReg.info.fields) = 2
    /\ HasPrefix(TheReg.info.fields[1])
    /\ ~HasPrefix(TheReg.info.fields[2])
    /\ Strings(Get(TheNode, "required")) = <<TheReg.info.fields[2].name>>
    /\ Has(Get(TheNode, "properties"), TheReg.info.fields[1].name)

\* C2: the node of an enum whose variants are all unit variants has type
\* "string" and an enum list equal to the variant names in descriptor order,
\* and no oneOf key.
C2_SimpleEnum ==
    (Exported /\ AllUnit(TheReg.info)) =>
        /\ Get(TheNode, "type") = JStr("string")
        /\ Has(TheNode, "enum")
        /\ Strings(Get(TheNode, "enum")) =
                [i \in 1..Len(TheReg.info.variants) |-> TheReg.info.variants[i].name]
        /\ ~Has(TheNode, "oneOf")

C2_Witness ==
    /\ Exported
    /\ AllUnit(TheReg.info)
    /\ Len(TheReg.info.variants) = 2
    /\ Strings(Get(TheNode, "enum")) = <<"North", "South">>

\* A field sub-schema {type: tp [+ minimum/maximum]} with keys among extra
\* besides.
FieldSchemaShape(sub, tp, extra) ==
    /\ sub.t = "obj"
    /\ Has(sub, "type") /\ Get(sub, "type") = JStr(tp)
    /\ Keys(sub) \subseteq ({"type", "minimum", "maximum"} \cup extra)
    /\ extra \subseteq Keys(sub)

\* The shape of the sub-schema of variant v; named says whether the fields
\* of a struct variant carry their name.
VariantShape(sub, v, named) ==
    CASE v.kind = "Unit" -> sub = Json(<< <<"const", JStr(v.name)>> >>)
      [] v.kind = "Tuple" ->
            /\ Get(sub, "type") = JStr("array")
            /\ Get(sub, "items") = JBool(FALSE)
            /\ Len(Get(sub, "prefixItems").e) = Len(v.fields)
            /\ \A i \in 1..Len(v.fields) :
                    FieldSchemaShape(Get(sub, "prefixItems").e[i],
                                     v.fields[i].type_path, {})
      [] v.kind = "Struct" ->
            /\ Get(sub, "type") = JStr("object")
            /\ Get(sub, "additionalProperties") = JBool(FALSE)
            /\ Keys(Get(sub, "properties")) =
                    {v.fields[i].name : i \in 1..Len(v.fields)}
            /\ \A i \in 1..Len(v.fields) :
                    LET f == Get(Get(sub, "properties"), v.fields[i].name) IN
                    /\ FieldSchemaShape(f, v.fields[i].type_path,
                                        IF named THEN {"name"} ELSE {})
                    /\ named => Get(f, "name") = JStr(v.fields[i].name)

MixedEnumShape(named) ==
    /\ Get(TheNode, "type") = JStr("object")
    /\ Has(TheNode, "oneOf")
    /\ Len(Get(TheNode, "oneOf").e) = Len(TheReg.info.variants)
    /\ \A i \in 1..Len(TheReg.info.variants) :
            VariantShape(Get(TheNode, "oneOf").e[i], TheReg.info.variants[i], named)

\* C3 as claimed: the node of a mixed enum has type "object" and a oneOf
\* with one sub-schema per variant, in variant order, of the shape of its
\* kind; the properties of a struct variant map each field name to
\* {type [+ minimum/maximum]} and nothing else.
C3_Original == (Exported /\ Mixed(TheReg.info)) => MixedEnumShape(FALSE)

\* C3 as amended: the same, but the properties of a struct variant map each
\* field name to {type, name: the field's name [+ minimum/maximum]}.
C3_MixedEnum == (Exported /\ Mixed(TheReg.info)) => MixedEnumShape(TRUE)

C3_Witness ==
    /\ Exported
    /\ Mixed(TheReg.info)
    /\ Len(TheReg.info.variants) = 2
    /\ TheReg.info.variants[1].kind = "Unit"
    /\ TheReg.info.variants[2].kind = "Struct"
    /\ Get(Get(Get(TheNode, "oneOf").e[2], "properties"), "name") =
            Json(<< <<"type", JStr("f32")>>, <<"name", JStr("name")>> >>)

\* The add_min_max calls of the export_type call that returned TheNode: the
\* sub-schema handed in (val), the field's position (pos) and its variant's
\* index (var), the arguments the call site passes (field_index,
\* variant_index) and the sub-schema found in the node (out).
Call(val, pos, var, field_index, variant_index, out) ==
    [val |-> val, pos |-> pos, var |-> var, field_index |-> field_index,
     variant_index |-> variant_index, out |-> out]

FieldCalls ==
    LET t == TheReg.info IN
    CASE t.kind = "Struct" ->
            {Call(Json(<< <<"type", JStr(t.fields[i].type_path)>> >>),
                  i - 1, None, i - 1, None,
                  Get(Get(TheNode, "properties"), t.fields[i].name)) :
                i \in 1..Len(t.fields)}
      [] t.kind \in {"TupleStruct", "Tuple"} ->
            {Call(Json(<< <<"type", JStr(t.fields[i].type_path)>> >>),
                  i - 1, None, i - 1, None,
                  Get(TheNode, "prefixItems").e[i]) :
                i \in 1..Len(t.fields)}
      [] OTHER -> {}

VariantCalls ==
    LET t == TheReg.info IN
    IF ~Mixed(t) THEN {}
    ELSE UNION {
            LET v == t.variants[j]
                sub == Get(TheNode, "oneOf").e[j]
            IN  CASE v.kind = "Struct" ->
                        {Call(Json(<< <<"type", JStr(v.fields[i].type_path)>>,
                                      <<"name", JStr(v.fields[i].name)>> >>),
                              i - 1, Some(j - 1), j - 1, Some(i - 1),
                              Get(Get(sub, "properties"), v.fields[i].name)) :
                            i \in 1..Len(v.fields)}
                  [] v.kind = "Tuple" ->
                        {Call(Json(<< <<"type", JStr(v.fields[i].type_path)>> >>),
                              i - 1, Some(j - 1), j - 1, Some(i - 1),
                              Get(sub, "prefixItems").e[i]) :
                            i \in 1..Len(v.fields)}
                  [] OTHER -> {} :
            j \in 1..Len(t.variants)}

Calls == FieldCalls \cup VariantCalls

\* The JSON number that is the f32 x.
IsNumber(v, x) == x.fin /\ v = JNum(x.n)

\* What an f32 becomes in a Value: its number, or null when it is not finite.
IsNumberOrNull(v, x) == IF x.fin THEN v = JNum(x.n) ELSE v = JNull

\* key is in out iff bound is set, and then holds it.
BoundKey(out, key, bound, holds(_, _)) ==
    /\ Has(out, key) <=> bound.some
    /\ bound.some => holds(Get(out, key), bound.val)

AddMinMaxContract(c, holds(_, _)) ==
    LET mm == get_min_max(TheReg, c.field_index, c.variant_index) IN
    IF ~mm.some
    THEN c.out = c.val /\ ~Has(c.out, "minimum") /\ ~Has(c.out, "maximum")
    ELSE /\ BoundKey(c.out, "minimum", mm.val[1], holds)
         /\ BoundKey(c.out, "maximum", mm.val[2], holds)
         /\ Keys(c.out) \ {"minimum", "maximum"} = Keys(c.val)
         /\ \A k \in Keys(c.val) : Get(c.out, k) = Get(c.val, k)

\* C6 as claimed: a sub-schema passed through add_min_max comes back
\* unchanged, with neither minimum nor maximum, when the lookup returns
\* nothing; when it returns (min, max), minimum is present iff min is set
\* and is then the number min, maximum likewise and independently, and no
\* other key changes.
C6_Original == Exported => \A c \in Calls : AddMinMaxContract(c, IsNumber)

\* C6 as amended: the same, but a bound that is set and not finite
\* (infinite or NaN) is present as null, not as a number.
C6_AddMinMax == Exported => \A c \in Calls : AddMinMaxContract(c, IsNumberOrNull)

C6_Witness ==
    /\ Exported
    /\ support_inspector
    /\ \E c \in Calls :
            /\ get_min_max(TheReg, c.field_index, c.variant_index) =
                    Some(<<Some(Infinity), None>>)
            /\ Get(c.out, "minimum") = JNull
            /\ ~Has(c.out, "maximum")
            /\ Get(c.out, "type") = Get(c.val, "type")

\* The sort key of export_types: t.get("name").unwrap().as_str().unwrap()
\* panics unless the node has a name that is a string.
SortKeyOk(node) == Has(node, "name") /\ Get(node, "name").t = "str"

\* C8: the node of a registered type of any kind is an object whose name is
\* the type path, as a string, whose isComponent and isResource are the two
\* capabilities of the registration; so the sort key of export_types exists.
C8_NameAndCapabilities ==
    Exported =>
        /\ TheNode.t = "obj"
        /\ SortKeyOk(TheNode)
        /\ Get(TheNode, "name") = JStr(TheReg.info.type_path)
        /\ Has(TheNode, "isComponent")
        /\ Get(TheNode, "isComponent") = JBool(TheReg.component)
        /\ Has(TheNode, "isResource")
        /\ Get(TheNode, "isResource") = JBool(TheReg.resource)

C8_Witness ==
    /\ Exported
    /\ TheReg.info.kind = "Map"
    /\ TheReg.component /\ ~TheReg.resource
    /\ Get(TheNode, "name") = JStr("game::Shape")
    /\ Get(TheNode, "isComponent") = JBool(TRUE)
    /\ Get(TheNode, "isResource") = JBool(FALSE)

\* C9: the required list of a struct variant's sub-schema holds exactly the
\* names of the fields whose type path does start with
\* "core::option::Option", in field order.
C9_VariantRequired ==
    (Exported /\ Mixed(TheReg.info)) =>
        \A j \in 1..Len(TheReg.info.variants) :
            TheReg.info.variants[j].kind = "Struct" =>
                ListsInOrder(Strings(Get(Get(TheNode, "oneOf").e[j], "required")),
                             TheReg.info.variants[j].fields, HasPrefix)

C9_Witness ==
    /\ Exported
    /\ Mixed(TheReg.info)
    /\ \E j \in 1..Len(TheReg.info.variants) :
            LET v == TheReg.info.variants[j] IN
            /\ v.kind = "Struct"
            /\ Len(v.fields) = 2
            /\ ~HasPrefix(v.fields[1])
            /\ HasPrefix(v.fields[2])
            /\ Strings(Get(Get(TheNode, "oneOf").e[j], "required")) =
                    <<v.fields[2].name>>

\* The bounds in out are those of the lookup result mm.
BoundsAre(out, mm) ==
    /\ Has(out, "minimum") <=> (mm.some /\ mm.val[1].some)
    /\ Has(out, "minimum") => Get(out, "minimum") = FromF32(mm.val[1].val)
    /\ Has(out, "maximum") <=> (mm.some /\ mm.val[2].some)
    /\ Has(out, "maximum") => Get(out, "maximum") = FromF32(mm.val[2].val)

\* C10: the bounds in the sub-schema of the field at position p of the
\* variant at index v of a mixed enum are those registered for field
\* position p within variant index v; those of the field at position p of a
\* Struct, TupleStruct or Tuple are those registered for field position p.
C10_BoundsByPosition ==
    Exported => \A c \in Calls : BoundsAre(c.out, get_min_max(TheReg, c.pos, c.var))

-----------------------------------------------------------------------------
\* App::export_types

Name(node) == Get(node, "name").s

\* Vec::sort_by_key without the sort.
sort_by_key_unsorted(v) == v

\* Vec::sort_by_key(|t| t.get("name").unwrap().as_str().unwrap().to_string()):
\* a stable sort, ascending in the Ord of String.
RECURSIVE sort_by_key(_)
sort_by_key(v) ==
    IF v = << >> THEN << >>
    ELSE LET front == sort_by_key(SubSeq(v, 1, Len(v) - 1))
             last == v[Len(v)]
         IN  SelectSeq(front, LAMBDA t : StrLeq(Name(t), Name(last)))
                \o <<last>>
                \o SelectSeq(front, LAMBDA t : StrLess(Name(last), Name(t)))

\* json!({"$schema": ..., "title": ..., "oneOf": schemas})
Document(nodes) ==
    Json(<< <<"$schema", JStr("https://json-schema.org/draft/2020-12/schema")>>,
            <<"title", JStr("bevy game schema")>>,
            <<"oneOf", JArr(nodes)>> >>)

\* serde_json::to_writer_pretty: the pieces the serializer hands to the
\* writer, one write each, in order (the white space of the pretty printer,
\* which the structure determines, left out). A Map is written in the order
\* of its entries.
RECURSIVE Serialize(_)
RECURSIVE SerializeAll(_, _)
Serialize(v) ==
    CASE v.t = "null" -> << <<"lit", "null">> >>
      [] v.t = "bool" -> << <<"lit", IF v.b THEN "true" ELSE "false">> >>
      [] v.t = "num" -> << <<"num", ToString(v.n)>> >>
      [] v.t = "str" -> << <<"str", v.s>> >>
      [] v.t = "arr" ->
            << <<"punct", "[">> >> \o SerializeAll(v.e, FALSE) \o << <<"punct", "]">> >>
      [] v.t = "obj" ->
            << <<"punct", "{">> >> \o SerializeAll(v.m, TRUE) \o << <<"punct", "}">> >>

\* The elements of an array, or the entries of a Map, separated by commas.
SerializeAll(es, entries) ==
    IF es = << >> THEN << >>
    ELSE (IF entries
          THEN << <<"str", es[1][1]>>, <<"punct", ":">> >> \o Serialize(es[1][2])
          ELSE Serialize(es[1]))
            \o (IF Len(es) > 1 THEN << <<"punct", ",">> >> ELSE << >>)
            \o SerializeAll(Tail(es), entries)

\* .expect("valid json") on the Err of a failed write: the call panics.
after_write_error_ignored == "written"

after_write_error == "panicked"

\* The registry of a whole export: registrations of distinct type paths.
Player ==
    Registration(
        StructInfo("game::Player",
                   <<NamedField("name", "alloc::string::String"),
                     NamedField("health", "f32")>>),
        TRUE, FALSE,
        Some([t \in {FieldTarget(1)} |->
                NumberOptions(Some(Finite(0)), Some(Finite(1)))]))

PlayerKind ==
    Registration(
        EnumInfo("game::PlayerKind",
                 <<UnitVariant("North"),
                   StructVariant("South",
                                 <<NamedField("name", "f32"),
                                   NamedField("health", "core::option::Option<f32>")>>)>>),
        FALSE, FALSE, None)

Direction ==
    Registration(
        EnumInfo("game::Direction", <<UnitVariant("North"), UnitVariant("South")>>),
        FALSE, TRUE, None)

F32 == Registration(ValueInfo("f32"), FALSE, FALSE, None)

SampleRegistrations == {Player, PlayerKind, Direction, F32}

TypePathOf(reg) == reg.info.type_path

Init ==
    /\ support_inspector \in BOOLEAN
    /\ registry \in {r \in SUBSET SampleRegistrations : Cardinality(r) <= MaxTypes}
    /\ pc = "idle"
    /\ iter_order = << >>
    /\ hash_orders = << >>
    /\ reordered = {}
    /\ schemas = << >>
    /\ pending = << >>
    /\ sink = << >>
    /\ previous = None
    /\ stderr = None

\* The orders in which types.iter() may yield the registrations.
IterOrders ==
    {o \in [1..Cardinality(registry) -> registry] :
        \A i, j \in 1..Cardinality(registry) : o[i] = o[j] => i = j}

\* The seeds of the HashMaps of one export_type call per registration.
HashOrders ==
    {h \in [{TypePathOf(r) : r \in registry} -> UNION {Seeds(r) : r \in registry}] :
        \A r \in registry : h[TypePathOf(r)] \in Seeds(r)}

\* export_types up to the call of to_writer_pretty: the registry is
\* iterated, every registration exported, the nodes sorted by name and
\* wrapped into the document; the writer is the caller's, empty so far.
ExportTypes ==
    /\ pc = "idle"
    /\ \E order \in IterOrders : \E h \in HashOrders :
        LET nodes == [i \in 1..Len(order) |->
                        export_type(order[i], h[TypePathOf(order[i])])]
            paths == [i \in 1..Len(order) |-> TypePathOf(order[i])]
        IN  /\ iter_order' = paths
            /\ hash_orders' = h
            /\ reordered' =
                    IF previous.some
                    THEN (IF paths # iter_order THEN {"registry"} ELSE {})
                            \cup (IF h # hash_orders THEN {"hashmap"} ELSE {})
                    ELSE {}
            /\ IF \A i \in 1..Len(nodes) : SortKeyOk(nodes[i])
               THEN /\ schemas' = sort_by_key(nodes)
                    /\ pending' = Serialize(Document(schemas'))
                    /\ pc' = "writing"
               ELSE /\ schemas' = nodes
                    /\ pending' = << >>
                    /\ pc' = "panicked in sort"
    /\ sink' = << >>
    /\ UNCHANGED <<support_inspector, registry, previous, stderr>>

\* One write of the serializer succeeds.
Write ==
    /\ pc = "writing"
    /\ sink' = Append(sink, Head(pending))
    /\ pending' = Tail(pending)
    /\ pc' = IF pending' = << >> THEN "written" ELSE "writing"
    /\ UNCHANGED <<support_inspector, registry, iter_order, hash_orders,
                   reordered, schemas, previous, stderr>>

\* One write of the serializer fails: to_writer_pretty returns the error.
WriteFails ==
    /\ pc = "writing"
    /\ pc' = after_write_error
    /\ UNCHANGED <<support_inspector, registry, iter_order, hash_orders,
                   reordered, schemas, pending, sink, previous, stderr>>

\* eprintln!("wrote schema containing {} types", schemas.len()), and the
\* call returns.
Report ==
    /\ pc = "written"
    /\ stderr' = Some(Len(schemas))
    /\ previous' = Some(sink)
    /\ pc' = "idle"
    /\ UNCHANGED <<support_inspector, registry, iter_order, hash_orders,
                   reordered, schemas, pending, sink>>

Next == ExportTypes \/ Write \/ WriteFails \/ Report

Spec == Init /\ [][Next]_vars

-----------------------------------------------------------------------------
\* Properties of export_types (Spec)

\* The complete document has been written to the writer of the running call.
DocumentWritten ==
    pc = "written" /\ pending = << >> /\ sink = Serialize(Document(schemas))

\* C4: in the document export_types writes, the names of the nodes of the
\* top-level oneOf are non-decreasing in the lexicographic order of
\* strings, whatever order the registry was iterated in, and there is
\* exactly one node per registered type.
C4_SortedByName ==
    pc = "written" =>
        /\ DocumentWritten
        /\ \A i, j \in 1..Len(schemas) :
                i < j => StrLeq(Name(schemas[i]), Name(schemas[j]))
        /\ Len(schemas) = Cardinality(registry)
        /\ {Name(schemas[i]) : i \in 1..Len(schemas)} =
                {TypePathOf(r) : r \in registry}

C4_Witness ==
    /\ DocumentWritten
    /\ iter_order = <<"game::PlayerKind", "game::Player">>
    /\ [i \in 1..Len(schemas) |-> Name(schemas[i])] =
            <<"game::Player", "game::PlayerKind">>

\* C5: a call of export_types over the registry of the call before it, left
\* as it was, writes what that call wrote, whatever the order in which the
\* registry and the HashMaps of the properties are iterated.
C5_SameOutput ==
    (pc = "written" /\ previous.some) => sink = previous.val

C5_Witness ==
    /\ pc = "written"
    /\ previous.some
    /\ reordered = {"registry", "hashmap"}
    /\ Player \in registry
    /\ sink = previous.val

====
